---- MODULE Spec2Model ----
(***************************************************************************)
(* The execution engine of the TODO executor: the run state machine        *)
(* (analyzing -> planning -> selecting -> executing -> reflecting ->       *)
(* selecting ... -> completing -> completed), its Task Ledger, the event   *)
(* log it publishes, the Checkpoint Store and the Run Coordinator          *)
(* registry with start / pause / resume / close.                           *)
(***************************************************************************)
EXTENDS Integers, Sequences, FiniteSets, TLC

\* ---------------------------------------------------------------- bounds
MaxTasks == 3
MaxStops == 1
MaxFaults == 1
BufBound == 2
MaxLog == 2
MaxConns == 2

RunIds == {1, 2}
MainRuns == {1}

Goals == {"", "Create a landing page"}

Subscribers == {1, 2}

\* ------------------------------------------------------------ vocabulary
TaskStatuses == {"pending", "in_progress", "completed", "failed", "needs_followup"}

EnginePhases ==
    {"analyzing", "planning", "selecting", "executing", "reflecting", "completing"}

TerminalPhases == {"completed", "error"}

\* the phases an observer is told (no selecting, no completing)
ExecutionPhase ==
    {"idle", "connecting", "analyzing", "planning", "executing", "reflecting",
     "paused", "completed", "error"}

\* the phase a state reports while it works
PhaseOf(state) ==
    CASE state = "selecting" -> "executing"
      [] state = "completing" -> "completed"
      [] OTHER -> state

NodeOf(state) ==
    CASE state = "analyzing" -> "analyze_goal"
      [] state = "planning" -> "plan_todos"
      [] state = "selecting" -> "select_task"
      [] state = "executing" -> "execute_task"
      [] state = "reflecting" -> "reflect"
      [] state = "completing" -> "complete"
      [] OTHER -> "none"

\* ------------------------------------------------------------------ state
VARIABLES
    run,        \* run[r]: the live Run State of run r (NoRun: never started)
    ckpt,       \* ckpt[r]: the Checkpoint Store's snapshot of run r (NoRun: not found)
    active,     \* active[r]: number of Engine instances the registry holds for r
    inflight,   \* inflight[r]: a transition of r is in flight (generator call pending)
    events,     \* events[r]: every event published for r, in publish order
    gen,        \* gen[r]: what the Content Generator answers in this run
    execCount,  \* execCount[r][i]: execution generator calls made for task i
    visited,    \* visited[r]: the engine states that performed a transition
    lastOp,     \* lastOp[r]: outcome of the last Run Coordinator call for r
    hist,       \* hist[r]: counts of pause / close / resume calls that took effect
    subs,       \* subs[r][s]: subscriber s of run r: its queue and what it received
    slot,       \* slot[r]: the subscriber whose queue is registered for r (0: none)
    store,      \* store.up: the Checkpoint Store takes writes;
                \* store.unsaved[r]: the last snapshot of r is not written yet;
                \* store.fails: how often the store stopped taking writes
    ui,         \* the browser's executor store (useExecutorStore)
    hook,       \* useSSE: its refs, the inputs of its last effect run, its cleanup
    conn,       \* conn[c]: the EventSource objects the hook has created
    page        \* the page: the session ids it generated, its pending loadSession

vars == <<run, ckpt, active, inflight, events, gen, execCount, visited, lastOp,
          hist, subs, slot, store, ui, hook, conn, page>>

busVars == <<subs, slot>>

engineVars == <<run, ckpt, active, inflight, events, gen, execCount, visited,
                lastOp, hist, subs, slot, store>>

clientVars == <<ui, hook, conn, page>>

NoRun ==
    [goal |-> "", state |-> "none", phase |-> "idle", tasks |-> <<>>, trace |-> <<>>,
     paused |-> FALSE, error |-> ""]

NewRun(goal) ==
    [goal |-> goal, state |-> "analyzing", phase |-> "analyzing", tasks |-> <<>>, trace |-> <<>>,
     paused |-> FALSE, error |-> ""]

NewTask(i) ==
    [id |-> i, status |-> "pending", result |-> 0, error |-> 0,
     started_at |-> FALSE, completed_at |-> FALSE]

TraceEntry(state, action, task) ==
    [node |-> NodeOf(state), action |-> action, task_id |-> task]

Event(type, phase, tasks, info) ==
    [type |-> type, phase |-> phase, tasks |-> tasks, info |-> info]

PhaseChange(phase) == Event("phase_change", phase, <<>>, <<>>)
TasksUpdate(tasks) == Event("tasks_update", "", tasks, <<>>)
TraceEvent(entry) == Event("trace", "", <<>>, <<entry>>)
MessageEvent(content) == Event("message", "", <<>>, <<content>>)
CompleteEvent == Event("complete", "", <<>>, <<>>)
ErrorEvent(reason) == Event("error", "", <<>>, <<reason>>)

\* -------------------------------------------------------- Task Ledger
SetAll(n) == [i \in 1..n |-> NewTask(i)]

UpdateOne(tasks, t) ==
    [j \in DOMAIN tasks |-> IF tasks[j].id = t.id THEN t ELSE tasks[j]]

PendingIdx(tasks) == {i \in DOMAIN tasks : tasks[i].status = "pending"}

Min(S) == CHOOSE x \in S : \A y \in S : x <= y
Max(S) == CHOOSE x \in S : \A y \in S : x >= y

CurrentIdx(tasks) == {i \in DOMAIN tasks : tasks[i].status = "in_progress"}

ShouldContinueInProgress(tasks) == CurrentIdx(tasks) # {}

ShouldContinue(tasks) == PendingIdx(tasks) # {}

LastPending(tasks) == Max(PendingIdx(tasks))

FirstPending(tasks) == Min(PendingIdx(tasks))

CountStatus(tasks, s) == Cardinality({i \in DOMAIN tasks : tasks[i].status = s})

DoneCount(tasks) == CountStatus(tasks, "completed") + CountStatus(tasks, "failed")

Summary(tasks) ==
    [completed |-> CountStatus(tasks, "completed"),
     failed |-> CountStatus(tasks, "failed"),
     needs_followup |-> CountStatus(tasks, "needs_followup"),
     total |-> Len(tasks)]

\* ------------------------------------------------------ content generator
GenChoices ==
    {g \in [ack : BOOLEAN, plan : 0..MaxTasks,
            exec : [1..MaxTasks -> {"ok", "fail"}]] :
        \A k \in 1..MaxTasks : k > g.plan => g.exec[k] = "ok"}

ExecCalls(r) ==
    LET RECURSIVE Sum(_)
        Sum(k) == IF k = 0 THEN 0 ELSE execCount[r][k] + Sum(k - 1)
    IN Sum(MaxTasks)

ExecOutcome(g, k) == IF k \in 1..MaxTasks THEN g.exec[k] ELSE "ok"

ValidGoalAny(goal) == TRUE

ValidGoal(goal) == goal # ""

ValidPlanAny(n) == TRUE

ValidPlan(n) == n >= 1

\* ------------------------------------------------------------ publishing
PublishedLedgerFirst(phase, oldTasks, newTasks, entry, extra) ==
    (IF newTasks # oldTasks THEN <<TasksUpdate(newTasks)>> ELSE <<>>)
    \o <<PhaseChange(phase)>> \o <<TraceEvent(entry)>> \o extra

\* what one transition publishes: the phase, the ledger if it changed, the
\* trace entry, then its message / complete / error events
Published(phase, oldTasks, newTasks, entry, extra) ==
    <<PhaseChange(phase)>>
    \o (IF newTasks # oldTasks THEN <<TasksUpdate(newTasks)>> ELSE <<>>)
    \o <<TraceEvent(entry)>> \o extra

\* --------------------------------------------------------------- event bus
NewSubscriber == [st |-> "new", buf |-> <<>>, got |-> 0, from |-> 0]

\* a subscriber's queue takes the publish number of an event at its end
Enqueue(buf, e) == Append(buf, e)

RECURSIVE EnqueueAll(_, _, _)
EnqueueAll(buf, last, n) ==
    IF n = 0 THEN buf
    ELSE Enqueue(EnqueueAll(buf, last, n - 1), last + n)

\* the n events that follow the first `last` of run r go to the registered queue
Publish(r, last, n) ==
    /\ subs' = IF slot[r] = 0 THEN subs
               ELSE [subs EXCEPT ![r][slot[r]].buf = EnqueueAll(@, last, n)]
    /\ UNCHANGED slot

\* ------------------------------------------------------- checkpoint store
\* save(runId, snapshot): the whole snapshot is written, or nothing is
Write(r, snapshot) ==
    /\ ckpt' = IF store.up THEN [ckpt EXCEPT ![r] = snapshot] ELSE ckpt
    /\ store' = [store EXCEPT !.unsaved[r] = ~store.up]

TracesReducerReplace(traces, entry) == <<entry>>

\* the trace log takes a new entry at its end
TracesReducer(traces, entry) == Append(traces, entry)

SaveFailureSilent(s) == s

\* a snapshot whose write fails: the failure is logged in the trace log
SaveFailure(s) ==
    [s EXCEPT !.trace = TracesReducer(@, TraceEntry(s.state, "checkpoint_failed", 0))]

\* the run state a write leaves the engine with
Saved(s) == IF store.up THEN s ELSE SaveFailure(s)

\* what a write publishes: nothing, or the error of a failed write
SaveEvents == IF store.up THEN <<>> ELSE <<ErrorEvent("checkpoint write failed")>>

\* one finished transition of run r: trace, publish, checkpoint
Commit(r, newState, newTasks, action, task, err, extra) ==
    LET old == run[r]
        entry == TraceEntry(old.state, action, task)
        newPhase == IF newState = "error" THEN "error" ELSE PhaseOf(old.state)
        new == Saved([old EXCEPT !.state = newState, !.phase = newPhase,
                                 !.tasks = newTasks,
                                 !.trace = TracesReducer(old.trace, entry),
                                 !.error = err])
        out == Published(newPhase, old.tasks, newTasks, entry, extra) \o SaveEvents
    IN /\ run' = [run EXCEPT ![r] = new]
       /\ Write(r, new)
       /\ events' = [events EXCEPT ![r] = @ \o out]
       /\ Publish(r, Len(events[r]), Len(out))
       /\ visited' = [visited EXCEPT ![r] = @ \cup {old.state}]
       /\ inflight' = [inflight EXCEPT ![r] = FALSE]
       /\ active' = [active EXCEPT ![r] =
                        IF newState \in TerminalPhases /\ store.up THEN 0 ELSE @]

\* ---------------------------------------------------------- executor store
\* the browser side: the zustand store the page, the chat panel and the
\* useSSE hook share.  A message is kept without its id and timestamp.
null == "null"

SessionIds == {"s1", "s2"}

Task(id, status) == [id |-> id, status |-> status]

Message(role, content) == [role |-> role, content |-> content]

\* the task lists a server sends: a ledger of two tasks once the first one ran
TaskLists == {<<Task(1, a), Task(2, "pending")>> : a \in {"completed", "failed"}}

TraceEntries ==
    {TraceEntry("planning", "planning_complete", 0),
     TraceEntry("executing", "task_completed", 1)}

Messages == {Message("assistant", "Hi there!")}

ErrorTexts == {"Connection failed"}

ResumeInputs == {"use the blue theme"}

initialState ==
    [sessionId |-> null, goal |-> "", phase |-> "idle", isConnected |-> FALSE,
     tasks |-> <<>>, traces |-> <<>>, messages |-> <<>>,
     savedSessions |-> <<>>, isLoadingSessions |-> FALSE,
     isLoading |-> FALSE, isResuming |-> FALSE, isViewOnly |-> FALSE,
     resumeInput |-> null, error |-> null]

setSessionId(s, id) == [s EXCEPT !.sessionId = id]

setGoal(s, goal) == [s EXCEPT !.goal = goal]

setPhase(s, phase) == [s EXCEPT !.phase = phase]

setConnected(s, connected) == [s EXCEPT !.isConnected = connected]

setTasks(s, tasks) == [s EXCEPT !.tasks = tasks]

setViewOnly(s, viewOnly) == [s EXCEPT !.isViewOnly = viewOnly]

setResumeInput(s, input) == [s EXCEPT !.resumeInput = input]

addTrace(s, trace) == [s EXCEPT !.traces = Append(@, trace)]

addMessage(s, message) == [s EXCEPT !.messages = Append(@, message)]

setLoading(s, loading) == [s EXCEPT !.isLoading = loading]

setError(s, error) == [s EXCEPT !.error = error]

setIsResuming(s, isResuming) ==
    [s EXCEPT !.isResuming = isResuming, !.isViewOnly = FALSE]

\* the data of an SSE event, one field per key an event type reads
Data(phase, tasks, trace, role, content, error) ==
    [phase |-> phase, tasks |-> tasks, trace |-> trace, role |-> role,
     content |-> content, error |-> error]

NoData == Data("", <<>>, <<>>, "", "", "")

SSEEventType ==
    {"connected", "node_start", "node_end", "phase_change", "tasks_update",
     "trace", "message", "complete", "error", "ping"}

SentPhases == {"planning", "executing"}

\* the events a server can send on a connection
SSEEvents ==
    {[event |-> t, data |-> NoData] :
        t \in {"connected", "node_start", "node_end", "complete", "ping"}}
    \cup {[event |-> "phase_change", data |-> Data(p, <<>>, <<>>, "", "", "")] :
            p \in SentPhases}
    \cup {[event |-> "tasks_update", data |-> Data("", ts, <<>>, "", "", "")] :
            ts \in TaskLists}
    \cup {[event |-> "trace", data |-> Data("", <<>>, <<tr>>, "", "", "")] :
            tr \in TraceEntries}
    \cup {[event |-> "message",
           data |-> Data("", <<>>, <<>>, m.role, m.content, "")] : m \in Messages}
    \cup {[event |-> "error", data |-> Data("", <<>>, <<>>, "", "", e)] :
            e \in ErrorTexts}

casePhaseChangeKeep(s, data) == s

\* case "phase_change"
casePhaseChange(s, data) == [s EXCEPT !.phase = data.phase]

caseTasksUpdateMerge(s, data) ==
    [s EXCEPT !.tasks = IF @ = <<>> THEN data.tasks ELSE @]

\* case "tasks_update"
caseTasksUpdate(s, data) == [s EXCEPT !.tasks = data.tasks]

caseTracePrepend(s, data) == [s EXCEPT !.traces = <<data.trace[1]>> \o @]

\* case "trace"
caseTrace(s, data) == [s EXCEPT !.traces = Append(@, data.trace[1])]

\* case "message"
caseMessage(s, data) ==
    [s EXCEPT !.messages = Append(@, Message(data.role, data.content))]

caseCompleteClears(s) ==
    [s EXCEPT !.phase = "completed", !.isLoading = FALSE, !.traces = <<>>]

\* case "complete"
caseComplete(s) == [s EXCEPT !.phase = "completed", !.isLoading = FALSE]

caseErrorKeepsLoading(s, data) == [s EXCEPT !.error = data.error, !.phase = "error"]

\* case "error"
caseError(s, data) ==
    [s EXCEPT !.error = data.error, !.phase = "error", !.isLoading = FALSE]

casePingConnects(s) == [s EXCEPT !.isConnected = TRUE]

\* case "ping"
casePing(s) == s

\* default: node_start and node_end have no case of their own
caseDefault(s) == s

handleSSEEvent(s, eventType, data) ==
    CASE eventType = "connected" -> [s EXCEPT !.isConnected = TRUE]
      [] eventType = "phase_change" -> casePhaseChange(s, data)
      [] eventType = "tasks_update" -> caseTasksUpdate(s, data)
      [] eventType = "trace" -> caseTrace(s, data)
      [] eventType = "message" -> caseMessage(s, data)
      [] eventType = "complete" -> caseComplete(s)
      [] eventType = "error" -> caseError(s, data)
      [] eventType = "ping" -> casePing(s)
      [] OTHER -> caseDefault(s)

\* what GET /api/session/{id} answers for a stored session
Session(sid, phase, tasks, traces) ==
    [session_id |-> sid, goal |-> "Create a landing page", phase |-> phase,
     tasks |-> tasks, traces |-> traces]

RestoredMessage(tasks) ==
    IF CountStatus(tasks, "pending") > 0
    THEN Message("assistant", "Session restored, tasks pending")
    ELSE Message("assistant", "Session restored, all tasks completed")

loadSessionOkLive(s, session) ==
    [s EXCEPT !.sessionId = session.session_id, !.goal = session.goal,
              !.phase = session.phase, !.tasks = session.tasks,
              !.traces = session.traces,
              !.messages = <<Message("user", session.goal),
                             RestoredMessage(session.tasks)>>,
              !.isLoading = FALSE, !.isResuming = FALSE]

\* loadSession after its fetch answered ok
loadSessionOk(s, session) ==
    [s EXCEPT !.sessionId = session.session_id, !.goal = session.goal,
              !.phase = session.phase, !.tasks = session.tasks,
              !.traces = session.traces,
              !.messages = <<Message("user", session.goal),
                             RestoredMessage(session.tasks)>>,
              !.isLoading = FALSE, !.isViewOnly = TRUE, !.isResuming = FALSE]

\* loadSession after its fetch failed or answered not ok
loadSessionFailed(s) ==
    [s EXCEPT !.error = "Failed to load session", !.isLoading = FALSE]

resetKeepsMode(s) ==
    [initialState EXCEPT !.isViewOnly = s.isViewOnly, !.resumeInput = s.resumeInput]

reset(s) == initialState

incompleteTasksPendingOnly(tasks) ==
    SelectSeq(tasks, LAMBDA t : t.status = "pending")

\* the chat panel: the tasks Continue Execution would take up
incompleteTasks(tasks) ==
    SelectSeq(tasks, LAMBDA t : t.status = "pending" \/ t.status = "failed")

canResume(s) == Len(incompleteTasks(s.tasks)) > 0 /\ s.phase = "completed"

\* ------------------------------------------------------------------ useSSE
\* the inputs the hook's effect depends on, as the page passes them
Deps(s) == <<s.sessionId, s.goal, s.isResuming, s.isViewOnly, s.resumeInput>>

\* eventSourceRef / cleanup name a connection by its index in conn, 0 for none
NewHook ==
    [eventSourceRef |-> 0, lastSessionRef |-> null, lastResumingRef |-> FALSE,
     deps |-> Deps(initialState), cleanup |-> 0]

Url(s) ==
    IF s.isResuming
    THEN [endpoint |-> "resume", session |-> s.sessionId, goal |-> "",
          user_input |-> s.resumeInput]
    ELSE [endpoint |-> "stream", session |-> s.sessionId, goal |-> s.goal,
          user_input |-> null]

EventSource(url) == [url |-> url, readyState |-> "connecting", ended |-> ""]

CloseSourceKeep(cn, c) == cn

\* eventSource.close()
CloseSource(cn, c) == IF c = 0 THEN cn ELSE [cn EXCEPT ![c].readyState = "closed"]

\* the browser side as one value: store, hook and connections
Client(s, h, cn) == [ui |-> s, hook |-> h, conn |-> cn]

\* the cleanup the last effect run returned, if it returned one
Cleanup(cl) ==
    IF cl.hook.cleanup = 0 THEN cl
    ELSE Client(setConnected(cl.ui, FALSE),
                [cl.hook EXCEPT !.cleanup = 0],
                CloseSource(cl.conn, cl.hook.cleanup))

shouldConnect(s) ==
    IF s.isResuming THEN s.sessionId # null
    ELSE s.sessionId # null /\ s.goal # "" /\ ~s.isViewOnly

\* the body of the effect
Effect(cl) ==
    LET s == cl.ui
        h == cl.hook
        id == Len(cl.conn) + 1
    IN IF s.isViewOnly THEN cl
       ELSE IF ~shouldConnect(s) THEN cl
       ELSE IF /\ h.lastSessionRef = s.sessionId
               /\ h.lastResumingRef = s.isResuming
               /\ h.eventSourceRef # 0 THEN cl
       ELSE Client(setPhase(setLoading(s, TRUE), "connecting"),
                   [h EXCEPT !.eventSourceRef = id,
                             !.lastSessionRef = s.sessionId,
                             !.lastResumingRef = s.isResuming,
                             !.cleanup = id],
                   Append(CloseSource(cl.conn, h.eventSourceRef), EventSource(Url(s))))

\* a render after the store changed: when an input of the effect changed,
\* the previous run's cleanup and then the effect
Render(cl) ==
    IF Deps(cl.ui) = cl.hook.deps THEN cl
    ELSE LET e == Effect(Cleanup(cl))
         IN [e EXCEPT !.hook.deps = Deps(cl.ui)]

NoLoad == [sid |-> null, resume |-> FALSE]

\* ------------------------------------------------------------------ init
Init ==
    /\ run = [r \in RunIds |-> NoRun]
    /\ ckpt = [r \in RunIds |-> NoRun]
    /\ active = [r \in RunIds |-> 0]
    /\ inflight = [r \in RunIds |-> FALSE]
    /\ events = [r \in RunIds |-> <<>>]
    /\ gen \in [RunIds -> GenChoices]
    /\ \A r \in RunIds \ MainRuns : gen[r] = [ack |-> TRUE, plan |-> 1,
                                               exec |-> [k \in 1..MaxTasks |-> "ok"]]
    /\ execCount = [r \in RunIds |-> [i \in 1..MaxTasks |-> 0]]
    /\ visited = [r \in RunIds |-> {}]
    /\ lastOp = [r \in RunIds |-> "none"]
    /\ hist = [r \in RunIds |-> [pauses |-> 0, closes |-> 0, resumes |-> 0,
                               doneAtResume |-> 0, traceAtPause |-> 0,
                               pauseInFlight |-> FALSE, pausedAt |-> "none",
                               faults |-> 0]]
    /\ subs = [r \in RunIds |-> [s \in Subscribers |-> NewSubscriber]]
    /\ slot = [r \in RunIds |-> 0]
    /\ store = [up |-> TRUE, unsaved |-> [r \in RunIds |-> FALSE], fails |-> 0]
    /\ ui = initialState
    /\ hook = NewHook
    /\ conn = <<>>
    /\ page = [issued |-> {}, load |-> NoLoad]

\* --------------------------------------------------------- engine steps
Engaged(r, state) ==
    /\ active[r] >= 1
    /\ inflight[r]
    /\ run[r].state = state

BeginWithBackpressure(r) ==
    /\ active[r] >= 1
    /\ ~inflight[r]
    /\ ~run[r].paused
    /\ run[r].state \in EnginePhases
    /\ ~store.unsaved[r]
    /\ slot[r] # 0 => Len(subs[r][slot[r]].buf) < BufBound
    /\ inflight' = [inflight EXCEPT ![r] = TRUE]
    /\ UNCHANGED <<clientVars, run, ckpt, active, events, gen, execCount, visited, lastOp,
                   hist, busVars, store>>

BeginWhilePaused(r) ==
    /\ active[r] >= 1
    /\ ~inflight[r]
    /\ run[r].state \in EnginePhases
    /\ ~store.unsaved[r]
    /\ inflight' = [inflight EXCEPT ![r] = TRUE]
    /\ UNCHANGED <<clientVars, run, ckpt, active, events, gen, execCount, visited, lastOp,
                   hist, busVars, store>>

BeginUnsaved(r) ==
    /\ active[r] >= 1
    /\ ~inflight[r]
    /\ ~run[r].paused
    /\ run[r].state \in EnginePhases
    /\ inflight' = [inflight EXCEPT ![r] = TRUE]
    /\ UNCHANGED <<clientVars, run, ckpt, active, events, gen, execCount, visited, lastOp,
                   hist, busVars, store>>

\* the engine looks at the paused flag at the transition boundary only, and
\* begins no transition before the last snapshot is written
Begin(r) ==
    /\ active[r] >= 1
    /\ ~inflight[r]
    /\ ~run[r].paused
    /\ run[r].state \in EnginePhases
    /\ ~store.unsaved[r]
    /\ inflight' = [inflight EXCEPT ![r] = TRUE]
    /\ UNCHANGED <<clientVars, run, ckpt, active, events, gen, execCount, visited, lastOp,
                   hist, busVars, store>>

Analyze(r) ==
    /\ Engaged(r, "analyzing")
    /\ IF ValidGoal(run[r].goal) /\ gen[r].ack
       THEN Commit(r, "planning", run[r].tasks, "goal_analyzed", 0, "",
                   <<MessageEvent("ack")>>)
       ELSE LET why == IF ValidGoal(run[r].goal) THEN "generator failure"
                       ELSE "empty goal"
            IN Commit(r, "error", run[r].tasks, "error", 0, why,
                      <<ErrorEvent(why)>>)
    /\ UNCHANGED <<clientVars, gen, execCount, lastOp, hist>>

Plan(r) ==
    /\ Engaged(r, "planning")
    /\ IF ValidPlan(gen[r].plan)
       THEN Commit(r, "selecting", SetAll(gen[r].plan), "planning_complete", 0,
                   "", <<>>)
       ELSE Commit(r, "error", run[r].tasks, "error", 0, "planning failure",
                   <<ErrorEvent("planning failure")>>)
    /\ UNCHANGED <<clientVars, gen, execCount, lastOp, hist>>

SelectTaskMoveFront(tasks) ==
    LET i == FirstPending(tasks)
        t == [tasks[i] EXCEPT !.status = "in_progress", !.started_at = TRUE]
    IN <<t>> \o SubSeq(tasks, 1, i - 1) \o SubSeq(tasks, i + 1, Len(tasks))

SelectTask(tasks) ==
    LET i == FirstPending(tasks)
    IN UpdateOne(tasks, [tasks[i] EXCEPT !.status = "in_progress",
                                         !.started_at = TRUE])

Select(r) ==
    /\ Engaged(r, "selecting")
    /\ IF ShouldContinue(run[r].tasks)
       THEN Commit(r, "executing", SelectTask(run[r].tasks), "task_selected",
                   FirstPending(run[r].tasks), "", <<>>)
       ELSE Commit(r, "completing", run[r].tasks, "no_pending_tasks", 0, "",
                   <<>>)
    /\ UNCHANGED <<clientVars, gen, execCount, lastOp, hist>>

ExecuteTaskErrorOnly(t, outcome, k) ==
    IF outcome = "ok"
    THEN [t EXCEPT !.status = "completed", !.result = k, !.completed_at = TRUE]
    ELSE [t EXCEPT !.error = k]

ExecuteTaskRequeue(t, outcome, k) ==
    IF outcome = "ok"
    THEN [t EXCEPT !.status = "completed", !.result = k, !.completed_at = TRUE]
    ELSE [t EXCEPT !.status = "pending", !.error = k]

ExecuteTask(t, outcome, k) ==
    IF outcome = "ok"
    THEN [t EXCEPT !.status = "completed", !.result = k, !.completed_at = TRUE]
    ELSE [t EXCEPT !.status = "failed", !.error = k]

AfterExecuteAbort(outcome) == IF outcome = "ok" THEN "reflecting" ELSE "error"

AfterExecute(outcome) == "reflecting"

FailureEventsNone(outcome) == <<>>

\* a failed execution is surfaced as an error event
FailureEvents(outcome) ==
    IF outcome = "ok" THEN <<>> ELSE <<ErrorEvent("execution failure")>>

Execute(r) ==
    /\ Engaged(r, "executing")
    /\ CurrentIdx(run[r].tasks) # {}
    /\ LET i == Min(CurrentIdx(run[r].tasks))
           k == ExecCalls(r) + 1
           outcome == ExecOutcome(gen[r], k)
           t == ExecuteTask(run[r].tasks[i], outcome, k)
       IN /\ Commit(r, AfterExecute(outcome), UpdateOne(run[r].tasks, t),
                    IF outcome = "ok" THEN "execution_success"
                    ELSE "execution_failed", i, "", FailureEvents(outcome))
          /\ execCount' = [execCount EXCEPT ![r][i] = @ + 1]
    /\ UNCHANGED <<clientVars, gen, lastOp, hist>>

ReflectRequeue(r) ==
    /\ Engaged(r, "reflecting")
    /\ LET tasks == run[r].tasks
           requeued == [j \in DOMAIN tasks |->
                           IF tasks[j].status = "failed"
                           THEN [tasks[j] EXCEPT !.status = "pending"]
                           ELSE tasks[j]]
       IN Commit(r, "selecting", requeued, "reflection", 0, "",
                 <<MessageEvent("progress")>>)
    /\ UNCHANGED <<clientVars, gen, execCount, lastOp, hist>>

Reflect(r) ==
    /\ Engaged(r, "reflecting")
    /\ Commit(r, "selecting", run[r].tasks, "reflection", 0, "",
              <<MessageEvent("progress")>>)
    /\ UNCHANGED <<clientVars, gen, execCount, lastOp, hist>>

Complete(r) ==
    /\ Engaged(r, "completing")
    /\ Commit(r, "completed", run[r].tasks, "execution_complete", 0, "",
              <<MessageEvent(Summary(run[r].tasks)), CompleteEvent>>)
    /\ UNCHANGED <<clientVars, gen, execCount, lastOp, hist>>

LoopPhases == {"selecting", "executing", "reflecting", "completing"}

\* an unrecoverable failure inside a transition of the task loop: the run
\* ends in error and keeps its ledger
Fatal(r) ==
    /\ active[r] >= 1
    /\ inflight[r]
    /\ run[r].state \in LoopPhases
    /\ hist[r].faults < MaxFaults
    /\ Commit(r, "error", run[r].tasks, "error", 0, "unrecoverable failure",
              <<ErrorEvent("unrecoverable failure")>>)
    /\ hist' = [hist EXCEPT ![r].faults = @ + 1]
    /\ UNCHANGED <<clientVars, gen, execCount, lastOp>>

\* the engine stops at the boundary where it sees the paused flag
PauseStop(r) ==
    /\ active[r] >= 1
    /\ ~inflight[r]
    /\ run[r].paused
    /\ run[r].state \in EnginePhases
    /\ store.up
    /\ ~store.unsaved[r]
    /\ run' = [run EXCEPT ![r].phase = "paused"]
    /\ Write(r, run'[r])
    /\ events' = [events EXCEPT ![r] = Append(@, PhaseChange("paused"))]
    /\ Publish(r, Len(events[r]), 1)
    /\ active' = [active EXCEPT ![r] = 0]
    /\ hist' = [hist EXCEPT ![r].pausedAt = run[r].state]
    /\ UNCHANGED <<clientVars, inflight, gen, execCount, visited, lastOp>>

\* the engine begins or finishes a transition
Transition(r) ==
    \/ Begin(r)
    \/ Analyze(r)
    \/ Plan(r)
    \/ Select(r)
    \/ Execute(r)
    \/ Reflect(r)
    \/ Complete(r)

EngineStep(r) == Transition(r) \/ PauseStop(r)

\* ------------------------------------------------------- run coordinator
\* pause and close calls that took effect so far, over all run ids
Stops ==
    LET RECURSIVE Sum(_)
        Sum(S) == IF S = {} THEN 0
                  ELSE LET x == CHOOSE y \in S : TRUE
                       IN hist[x].pauses + hist[x].closes + Sum(S \ {x})
    IN Sum(RunIds)

CanAcquireAlways(r) == TRUE

CanAcquire(r) == active[r] = 0

ResumableAlways(s) == TRUE

Resumable(s) == s.state \in EnginePhases \/ ShouldContinue(s.tasks)

ResumeAt(s) == IF s.state \in TerminalPhases THEN "selecting" ELSE s.state

ResetStatus(tasks, from) ==
    [i \in DOMAIN tasks |->
        IF tasks[i].status = from
        THEN [tasks[i] EXCEPT !.status = "pending", !.result = 0, !.error = 0]
        ELSE tasks[i]]

ResumeStateRetryFailed(s) ==
    [s EXCEPT !.paused = FALSE, !.state = ResumeAt(s),
              !.tasks = ResetStatus(s.tasks, "failed")]

ResumeStateResetInProgress(s) ==
    [s EXCEPT !.paused = FALSE, !.state = ResumeAt(s),
              !.tasks = ResetStatus(s.tasks, "in_progress")]

ResumeStateFresh(s) == NewRun(s.goal)

ResumeStateFromEntry(s) ==
    [s EXCEPT !.paused = FALSE,
              !.state = IF s.state \in TerminalPhases THEN "analyzing" ELSE s.state,
              !.error = IF s.state \in TerminalPhases THEN "" ELSE @]

ResumeStateAtSelecting(s) ==
    [s EXCEPT !.paused = FALSE,
              !.state = IF s.tasks # <<>> THEN "selecting" ELSE ResumeAt(s)]

ResumeState(s) ==
    [s EXCEPT !.paused = FALSE,
              !.state = ResumeAt(s),
              !.error = IF s.state \in TerminalPhases THEN "" ELSE @]

Start(r, goal) ==
    IF ~CanAcquire(r)
    THEN /\ lastOp' = [lastOp EXCEPT ![r] = "conflict"]
         /\ UNCHANGED <<clientVars, run, ckpt, active, inflight, events, gen, execCount,
                        visited, hist, busVars, store>>
    ELSE /\ ckpt[r] = NoRun
         /\ run' = [run EXCEPT ![r] = Saved(NewRun(goal))]
         /\ Write(r, Saved(NewRun(goal)))
         /\ events' = [events EXCEPT ![r] = @ \o SaveEvents]
         /\ Publish(r, Len(events[r]), Len(SaveEvents))
         /\ active' = [active EXCEPT ![r] = @ + 1]
         /\ lastOp' = [lastOp EXCEPT ![r] = "started"]
         /\ UNCHANGED <<clientVars, inflight, gen, execCount, visited, hist>>

Resume(r) ==
    IF ~CanAcquire(r)
    THEN /\ lastOp' = [lastOp EXCEPT ![r] = "conflict"]
         /\ UNCHANGED <<clientVars, run, ckpt, active, inflight, events, gen, execCount,
                        visited, hist, busVars, store>>
    ELSE IF ckpt[r] = NoRun
    THEN /\ lastOp' = [lastOp EXCEPT ![r] = "not_found"]
         /\ UNCHANGED <<clientVars, run, ckpt, active, inflight, events, gen, execCount,
                        visited, hist, busVars, store>>
    ELSE IF ~Resumable(ckpt[r])
    THEN /\ lastOp' = [lastOp EXCEPT ![r] = "refused"]
         /\ UNCHANGED <<clientVars, run, ckpt, active, inflight, events, gen, execCount,
                        visited, hist, busVars, store>>
    ELSE /\ run' = [run EXCEPT ![r] = Saved(ResumeState(ckpt[r]))]
         /\ Write(r, Saved(ResumeState(ckpt[r])))
         /\ events' = [events EXCEPT ![r] = @ \o SaveEvents]
         /\ Publish(r, Len(events[r]), Len(SaveEvents))
         /\ active' = [active EXCEPT ![r] = @ + 1]
         /\ inflight' = [inflight EXCEPT ![r] = FALSE]
         /\ lastOp' = [lastOp EXCEPT ![r] = "resumed"]
         /\ hist' = [hist EXCEPT ![r].resumes = @ + 1,
                                 ![r].doneAtResume =
                                     Max({@, DoneCount(ckpt[r].tasks)}),
                                 ![r].traceAtPause = 0,
                                 ![r].pauseInFlight = FALSE,
                                 ![r].pausedAt = "none"]
         /\ UNCHANGED <<clientVars, gen, execCount, visited>>

Pause(r) ==
    /\ active[r] >= 1
    /\ ~run[r].paused
    /\ Stops < MaxStops
    /\ run' = [run EXCEPT ![r].paused = TRUE]
    /\ hist' = [hist EXCEPT ![r].pauses = @ + 1,
                             ![r].traceAtPause = Len(run[r].trace),
                             ![r].pauseInFlight = inflight[r]]
    /\ UNCHANGED <<clientVars, ckpt, active, inflight, events, gen, execCount, visited,
                   lastOp, busVars, store>>

Close(r) ==
    /\ active[r] >= 1
    /\ ~inflight[r]
    /\ Stops < MaxStops
    /\ active' = [active EXCEPT ![r] = 0]
    /\ run' = [run EXCEPT ![r] = ckpt[r]]
    /\ hist' = [hist EXCEPT ![r].closes = @ + 1]
    /\ store' = [store EXCEPT !.unsaved[r] = FALSE]
    /\ UNCHANGED <<clientVars, ckpt, inflight, events, gen, execCount, visited, lastOp,
                   busVars>>

CoordinatorStep(r) ==
    \/ \E goal \in Goals : Start(r, goal)
    \/ Resume(r)
    \/ Pause(r)
    \/ Close(r)

Next == \E r \in MainRuns : EngineStep(r) \/ CoordinatorStep(r)

Spec == Init /\ [][Next]_vars

\* ------------------------------------------------------- specifications
\* every run is driven by its own worker: an engine step that stays enabled
\* is eventually taken (no fairness for the user's start/pause/resume/close)
FairSpec == Spec /\ \A r \in MainRuns : WF_vars(EngineStep(r))

\* two run ids side by side, each with a short plan
InitCoord ==
    /\ Init
    /\ \A r \in RunIds : gen[r].ack /\ gen[r].plan = 1

NextCoord == \E r \in RunIds : EngineStep(r) \/ CoordinatorStep(r)

SpecCoord == InitCoord /\ [][NextCoord]_vars

\* ------------------------------------------------------------ subscribers
AttachWithReplay(r, s) ==
    /\ subs[r][s].st = "new"
    /\ subs' = [subs EXCEPT ![r][s] =
                    [st |-> "on", got |-> 0, from |-> Len(events[r]),
                     buf |-> EnqueueAll(<<>>, 0, Len(events[r]))]]
    /\ slot' = [slot EXCEPT ![r] = s]
    /\ UNCHANGED <<clientVars, run, ckpt, active, inflight, events, gen, execCount, visited,
                   lastOp, hist, store>>

\* a consumer opens the stream: a fresh queue, registered for the run
Attach(r, s) ==
    /\ subs[r][s].st = "new"
    /\ subs' = [subs EXCEPT ![r][s] =
                    [st |-> "on", got |-> 0, from |-> Len(events[r]),
                     buf |-> <<>>]]
    /\ slot' = [slot EXCEPT ![r] = s]
    /\ UNCHANGED <<clientVars, run, ckpt, active, inflight, events, gen, execCount, visited,
                   lastOp, hist, store>>

\* the stream hands the consumer the oldest queued event, and ends on complete
Deliver(r, s) ==
    /\ subs[r][s].st = "on"
    /\ subs[r][s].buf # <<>>
    /\ LET e == Head(subs[r][s].buf)
       IN subs' = [subs EXCEPT ![r][s].buf = Tail(@),
                               ![r][s].got = e,
                               ![r][s].st = IF events[r][e].type = "complete"
                                            THEN "off" ELSE @]
    /\ UNCHANGED <<clientVars, run, ckpt, active, inflight, events, gen, execCount, visited,
                   lastOp, hist, slot, store>>

\* the stream ends: idle timeout or the consumer disconnects
Detach(r, s) ==
    /\ subs[r][s].st = "on"
    /\ subs' = [subs EXCEPT ![r][s].st = "off"]
    /\ UNCHANGED <<clientVars, run, ckpt, active, inflight, events, gen, execCount, visited,
                   lastOp, hist, slot, store>>

SubscriberStep(r) ==
    \E s \in Subscribers : Attach(r, s) \/ Deliver(r, s) \/ Detach(r, s)

\* one run watched by consumers that come, read at their own pace, and go
InitBus ==
    /\ Init
    /\ \A r \in RunIds : gen[r].ack /\ gen[r].plan = 1

NextBus ==
    \E r \in MainRuns :
        \/ Transition(r)
        \/ \E goal \in Goals : Start(r, goal)
        \/ SubscriberStep(r)

SpecBus == InitBus /\ [][NextBus]_vars

FairSpecBus == SpecBus /\ \A r \in MainRuns : WF_vars(Transition(r))

\* runs whose task executions all succeed (the goal and the plan may fail)
InitExecOk ==
    /\ Init
    /\ \A r \in RunIds : \A k \in 1..MaxTasks : gen[r].exec[k] = "ok"

\* ------------------------------------------------- checkpoint store faults
\* the engine, blocked on a snapshot that was not written, writes it
Save(r) ==
    /\ active[r] >= 1
    /\ store.up
    /\ store.unsaved[r]
    /\ ckpt' = [ckpt EXCEPT ![r] = run[r]]
    /\ store' = [store EXCEPT !.unsaved[r] = FALSE]
    /\ active' = [active EXCEPT ![r] =
                     IF run[r].state \in TerminalPhases THEN 0 ELSE @]
    /\ UNCHANGED <<clientVars, run, inflight, events, gen, execCount, visited, lastOp, hist,
                   busVars>>

StoreFail ==
    /\ store.up
    /\ store.fails < MaxFaults
    /\ store' = [store EXCEPT !.up = FALSE, !.fails = @ + 1]
    /\ UNCHANGED <<clientVars, run, ckpt, active, inflight, events, gen, execCount, visited,
                   lastOp, hist, busVars>>

StoreRecover ==
    /\ ~store.up
    /\ store' = [store EXCEPT !.up = TRUE]
    /\ UNCHANGED <<clientVars, run, ckpt, active, inflight, events, gen, execCount, visited,
                   lastOp, hist, busVars>>

\* runs over a Checkpoint Store whose writes fail for a while
NextStore ==
    \/ \E r \in MainRuns : EngineStep(r) \/ CoordinatorStep(r) \/ Save(r)
    \/ StoreFail
    \/ StoreRecover

\* plans of at most one task whose execution succeeds
InitStore ==
    /\ InitExecOk
    /\ \A r \in RunIds : gen[r].plan <= 1

SpecStore == InitStore /\ [][NextStore]_vars

\* runs that may also end in error inside the task loop
NextFatal == \E r \in MainRuns : EngineStep(r) \/ CoordinatorStep(r) \/ Fatal(r)

SpecFatal == InitExecOk /\ [][NextFatal]_vars

\* runs in which every kind of error can occur, watched by one consumer
NextErrors ==
    \/ \E r \in MainRuns :
         \/ Transition(r)
         \/ \E goal \in Goals : Start(r, goal)
         \/ Fatal(r)
         \/ Save(r)
         \/ \E s \in {Min(Subscribers)} : Attach(r, s) \/ Deliver(r, s)
    \/ StoreFail
    \/ StoreRecover

\* plans of at most one task; the goal, the plan and the execution may fail
InitErrors ==
    /\ Init
    /\ \A r \in RunIds : gen[r].ack /\ gen[r].plan <= 1

SpecErrors == InitErrors /\ [][NextErrors]_vars

\* ---------------------------------------------------------------- the page
\* the sessions the history holds on the server, as loadSession fetches them
StoredSessions(sid) ==
    {Session(sid, "paused", <<Task(1, "completed"), Task(2, "pending")>>,
             <<TraceEntry("executing", "task_completed", 1)>>),
     Session(sid, "completed", <<Task(1, "completed")>>,
             <<TraceEntry("executing", "task_completed", 1)>>),
     Session(sid, "completed", <<Task(1, "completed"), Task(2, "failed")>>,
             <<TraceEntry("executing", "task_completed", 1)>>)}

isExecuting(s) == s.phase \notin {"idle", "completed", "error"}

\* the chat input takes a submission
canSubmit(s) == ~s.isLoading /\ ~isExecuting(s)

\* a closed EventSource that neither eventSourceRef nor a cleanup refers to
\* is garbage: only its being closed is kept
Collected == [url |-> [endpoint |-> "", session |-> null, goal |-> "",
                       user_input |-> null],
              readyState |-> "closed", ended |-> ""]

Collect(cn, h) ==
    [c \in DOMAIN cn |->
        IF cn[c].readyState = "closed" /\ c \notin {h.eventSourceRef, h.cleanup}
        THEN Collected ELSE cn[c]]

\* one synchronous block of browser code ended with the store as in cl: the
\* page renders, the hook's effect runs if its inputs changed
ClientStep(cl, pg) ==
    LET r == Render(cl)
    IN /\ Len(r.conn) <= MaxConns
       /\ ui' = r.ui
       /\ hook' = r.hook
       /\ conn' = Collect(r.conn, r.hook)
       /\ page' = pg
       /\ UNCHANGED engineVars

\* the chat form submitted with a goal
HandleStartExecution(newGoal) ==
    /\ newGoal # ""
    /\ canSubmit(ui)
    /\ ~(canResume(ui) /\ ui.sessionId # null)
    /\ \E newSessionId \in SessionIds \ page.issued :
         LET s == setLoading(
                    setGoal(
                      setSessionId(
                        setViewOnly(
                          addMessage(reset(ui), Message("user", newGoal)),
                          FALSE),
                        newSessionId),
                      newGoal),
                    TRUE)
         IN ClientStep(Client(s, hook, conn),
                       [page EXCEPT !.issued = @ \cup {newSessionId}])

\* loadSession up to its fetch
LoadSessionBegin(sid, resume) ==
    /\ page.load = NoLoad
    /\ ClientStep(Client(setLoading(ui, TRUE), hook, conn),
                  [page EXCEPT !.load = [sid |-> sid, resume |-> resume]])

HandleViewSession(sid) == LoadSessionBegin(sid, FALSE)

HandleResumeSession(sid) == LoadSessionBegin(sid, TRUE)

\* what follows `await loadSession(sid)` in the handler that called it
AfterLoad(cl) ==
    IF page.load.resume
    THEN Client(setLoading(setIsResuming(cl.ui, TRUE), TRUE), cl.hook, cl.conn)
    ELSE cl

\* the fetch of loadSession answers ok, the calling handler goes on
LoadSessionOk ==
    /\ page.load # NoLoad
    /\ \E session \in StoredSessions(page.load.sid) :
         ClientStep(AfterLoad(Render(Client(loadSessionOk(ui, session), hook, conn))),
                    [page EXCEPT !.load = NoLoad])

\* the fetch of loadSession fails, the calling handler goes on
LoadSessionFailed ==
    /\ page.load # NoLoad
    /\ ClientStep(AfterLoad(Render(Client(loadSessionFailed(ui), hook, conn))),
                  [page EXCEPT !.load = NoLoad])

\* the Continue Execution button (no input) or the chat form while a
\* session can be resumed (with input)
HandleContinueExecution(userInput) ==
    /\ IF userInput = null THEN canResume(ui)
       ELSE canSubmit(ui) /\ canResume(ui) /\ ui.sessionId # null
    /\ LET s0 == IF userInput # null THEN setResumeInput(ui, userInput) ELSE ui
           s == setLoading(setIsResuming(s0, TRUE), TRUE)
       IN ClientStep(Client(s, hook, conn), page)

HandleNewSession == ClientStep(Client(reset(ui), hook, conn), page)

\* ------------------------------------------------------------ connections
\* eventSource.onopen
OnOpen(c) ==
    /\ conn[c].readyState = "connecting"
    /\ ClientStep(Client(setConnected(ui, TRUE), hook,
                         [conn EXCEPT ![c].readyState = "open"]), page)

\* eventSource.onerror
OnError(c) ==
    /\ conn[c].readyState # "closed"
    /\ ClientStep(Client(setError(setConnected(ui, FALSE),
                                  "Connection lost. Please try again."),
                         hook,
                         [conn EXCEPT ![c].readyState = "closed", ![c].ended = "lost"]),
                  page)

ListenerKeepOpen(cl, c, eventType, data) ==
    Client(handleSSEEvent(cl.ui, eventType, data), cl.hook, cl.conn)

\* the listener the hook adds for every event type
Listener(cl, c, eventType, data) ==
    LET s == handleSSEEvent(cl.ui, eventType, data)
    IN IF eventType \in {"complete", "error"}
       THEN Client(setIsResuming(setConnected(s, FALSE), FALSE), cl.hook,
                   [cl.conn EXCEPT ![c].readyState = "closed", ![c].ended = eventType])
       ELSE Client(s, cl.hook, cl.conn)

\* an event of the server arrives on connection c
Receive(c, e) ==
    /\ conn[c].readyState = "open"
    /\ e.event = "trace" => Len(ui.traces) < MaxLog
    /\ e.event = "message" => Len(ui.messages) < MaxLog
    /\ ClientStep(Listener(Client(ui, hook, conn), c, e.event, e.data), page)

NextClient ==
    \/ \E g \in Goals : HandleStartExecution(g)
    \/ \E sid \in SessionIds : HandleViewSession(sid) \/ HandleResumeSession(sid)
    \/ LoadSessionOk
    \/ LoadSessionFailed
    \/ \E i \in ResumeInputs \cup {null} : HandleContinueExecution(i)
    \/ HandleNewSession
    \/ \E c \in DOMAIN conn : OnOpen(c) \/ OnError(c)
    \/ \E c \in DOMAIN conn : \E e \in SSEEvents : Receive(c, e)

InitClient ==
    /\ Init
    /\ \A r \in RunIds : gen[r] = [ack |-> TRUE, plan |-> 1,
                                   exec |-> [k \in 1..MaxTasks |-> "ok"]]

SpecClient == InitClient /\ [][NextClient]_vars

\* ---------------------------------------------------------------- claims
Started(r) == run[r].state # "none"

AllGeneratorCallsSucceed(r) ==
    /\ gen[r].ack
    /\ gen[r].plan >= 1
    /\ \A k \in 1..MaxTasks : gen[r].exec[k] = "ok"

TraceCovers(r) ==
    \A p \in visited[r] :
        \E j \in DOMAIN run[r].trace : run[r].trace[j].node = NodeOf(p)

RunCompleted(r) ==
    /\ run[r].phase = "completed"
    /\ Len(run[r].tasks) = gen[r].plan
    /\ \A i \in DOMAIN run[r].tasks : run[r].tasks[i].status = "completed"
    /\ visited[r] = EnginePhases
    /\ TraceCovers(r)

\* stopped at a boundary by a pause or a close, waiting for a resume
Detached(r) == active[r] = 0 /\ run[r].state \in EnginePhases

\* C1: a started run with a non-empty goal, a plan of 1..N tasks and every
\* generator call succeeding eventually reaches phase completed with every
\* task completed and a trace entry for each of the six states it visited
\* (or sits detached by a pause or close, until it is resumed).
C1_AllSucceedCompletes ==
    \A r \in MainRuns :
        (Started(r) /\ ValidGoal(run[r].goal) /\ AllGeneratorCallsSucceed(r))
            ~> (RunCompleted(r) \/ Detached(r))

C1_Witness ==
    /\ RunCompleted(1)
    /\ AllGeneratorCallsSucceed(1)
    /\ Len(run[1].tasks) = MaxTasks
    /\ hist[1].resumes = 0

EventsOfType(r, type) == {j \in DOMAIN events[r] : events[r][j].type = type}

FinalSummary(r) == events[r][Min(EventsOfType(r, "complete")) - 1].info[1]

FailedCalls(r) == {k \in 1..Len(run[r].tasks) : gen[r].exec[k] = "fail"}

\* C2: a task whose execution generator call failed is failed with an error
\* set; phase error is never entered once a task was executed; a completed
\* run has executed every task of the ledger, and when exactly one call
\* failed its final summary counts 1 failed task.
C2_TaskFailureIsLocal ==
    \A r \in RunIds :
        /\ \A k \in DOMAIN run[r].tasks :
              (execCount[r][k] >= 1 /\ gen[r].exec[k] = "fail")
                  => (run[r].tasks[k].status = "failed" /\ run[r].tasks[k].error # 0)
        /\ run[r].phase = "error" => ExecCalls(r) = 0
        /\ run[r].phase = "completed" =>
              /\ \A i \in DOMAIN run[r].tasks : execCount[r][i] = 1
              /\ FinalSummary(r).failed = Cardinality(FailedCalls(r))
              /\ Cardinality(FailedCalls(r)) = 1 => FinalSummary(r).failed = 1

C2_Witness ==
    /\ run[1].phase = "completed"
    /\ Len(run[1].tasks) = 3
    /\ FailedCalls(1) = {2}
    /\ run[1].tasks[2].status = "failed"
    /\ run[1].tasks[3].status = "completed"
    /\ FinalSummary(1).failed = 1

\* C3: over the whole history of a run, pauses and resumes included, the
\* execution generator is called at most once for each task.
C3_NoReExecution ==
    \A r \in RunIds : \A i \in 1..MaxTasks : execCount[r][i] <= 1

C3_Witness ==
    /\ run[1].phase = "completed"
    /\ hist[1].pauses >= 1
    /\ hist[1].closes = 0
    /\ hist[1].resumes >= 1
    /\ hist[1].doneAtResume >= 1
    /\ \E i \in DOMAIN run[1].tasks : run[1].tasks[i].status = "failed"

\* the ledger an uninterrupted run ends with: task i gets the i-th execution call
ExpectedTask(g, i) ==
    IF g.exec[i] = "ok"
    THEN [id |-> i, status |-> "completed", result |-> i, error |-> 0,
          started_at |-> TRUE, completed_at |-> TRUE]
    ELSE [id |-> i, status |-> "failed", result |-> 0, error |-> i,
          started_at |-> TRUE, completed_at |-> FALSE]

ExpectedLedger(g) == [i \in 1..g.plan |-> ExpectedTask(g, i)]

\* C4: whatever stops (pause or close), checkpoint reloads and resumes a
\* run went through, a completed run holds the terminal ledger of the
\* uninterrupted run with the same generator outputs, in the live state and
\* in the Checkpoint Store.
C4_ResumeEquivalence ==
    \A r \in RunIds :
        run[r].phase = "completed" =>
            /\ run[r].tasks = ExpectedLedger(gen[r])
            /\ ckpt[r].tasks = ExpectedLedger(gen[r])

C4_Witness ==
    /\ run[1].phase = "completed"
    /\ hist[1].closes >= 1
    /\ hist[1].pauses = 0
    /\ hist[1].resumes >= 1
    /\ hist[1].doneAtResume >= 1
    /\ Len(run[1].tasks) = MaxTasks
    /\ run[1].tasks = ExpectedLedger(gen[1])

\* C5: a step that leaves selecting either finds a pending task, marks the
\* first pending task in ledger order in_progress (every other task
\* untouched) and goes to executing, or finds none, leaves the ledger as it
\* is and goes to completing.
C5_SelectsFirstPending ==
    [][\A r \in RunIds :
          (run[r].state = "selecting" /\ run'[r].state # "selecting") =>
              LET old == run[r].tasks
                  new == run'[r].tasks
              IN IF \E i \in DOMAIN old : old[i].status = "pending"
                 THEN /\ run'[r].state = "executing"
                      /\ DOMAIN new = DOMAIN old
                      /\ \E i \in DOMAIN old :
                            /\ old[i].status = "pending"
                            /\ \A j \in 1..(i - 1) : old[j].status # "pending"
                            /\ new[i].status = "in_progress"
                            /\ new[i].started_at
                            /\ \A j \in DOMAIN old \ {i} : new[j] = old[j]
                 ELSE /\ run'[r].state = "completing"
                      /\ new = old]_vars

C5_Witness ==
    /\ run[1].state = "executing"
    /\ Len(run[1].tasks) = 3
    /\ run[1].tasks[1].status = "completed"
    /\ run[1].tasks[2].status = "in_progress"
    /\ run[1].tasks[3].status = "pending"

\* C6: the registry never holds more than one engine instance for a run id;
\* no instance is added for a run id that has one; a start or resume answered
\* with a conflict found an instance and changed neither the registry, the
\* run state, the checkpoint nor the event log.
C6_OneEnginePerRun ==
    [][\A r \in RunIds :
          /\ active'[r] <= 1
          /\ active[r] >= 1 => active'[r] <= active[r]
          /\ (lastOp'[r] = "conflict" /\ lastOp[r] # "conflict") =>
                /\ active[r] >= 1
                /\ UNCHANGED <<run, ckpt, active, inflight, events>>]_vars

C6_Witness ==
    /\ active[1] = 1
    /\ active[2] = 1
    /\ lastOp[1] = "conflict"
    /\ hist[1].resumes >= 1

\* C7: a run started with an empty goal never enters planning and never
\* publishes a tasks_update; once its analyzing transition is done it is in
\* phase error and an error event has been published.
C7_EmptyGoalIsError ==
    \A r \in RunIds :
        (Started(r) /\ run[r].goal = "") =>
            /\ run[r].state \in {"analyzing", "error"}
            /\ run[r].phase \in {"analyzing", "paused", "error"}
            /\ "planning" \notin visited[r]
            /\ EventsOfType(r, "tasks_update") = {}
            /\ \A j \in DOMAIN events[r] :
                  ~(events[r][j].type = "phase_change" /\ events[r][j].phase = "planning")
            /\ visited[r] # {} =>
                  /\ run[r].phase = "error"
                  /\ run[r].error # ""
                  /\ EventsOfType(r, "error") # {}

C7_Witness ==
    /\ run[1].goal = ""
    /\ run[1].phase = "error"
    /\ EventsOfType(1, "error") # {}
    /\ EventsOfType(1, "tasks_update") = {}

\* the events a consumer is told to expect, as (type, phase, task statuses)
EventKey(e) ==
    <<e.type, e.phase, [i \in DOMAIN e.tasks |-> e.tasks[i].status]>>

\* the events of run r of the kinds the scenario speaks of, in publish order
ScenarioPhases == {"planning", "executing", "reflecting", "completed"}

ScenarioEvents(r) ==
    LET Keep(e) == \/ e.type \in {"tasks_update", "complete"}
                   \/ (e.type = "phase_change" /\ e.phase \in ScenarioPhases)
        RECURSIVE Filter(_)
        Filter(q) == IF q = <<>> THEN <<>>
                     ELSE (IF Keep(Head(q)) THEN <<EventKey(Head(q))>> ELSE <<>>)
                          \o Filter(Tail(q))
    IN Filter(events[r])

StatusesAt(n, i, s) ==
    [j \in 1..n |-> IF j < i THEN "completed" ELSE IF j = i THEN s ELSE "pending"]

\* phase_change executing, tasks_update in_progress, tasks_update completed,
\* phase_change reflecting, for tasks i..n in ledger order
RECURSIVE PerTaskEvents(_, _)
PerTaskEvents(n, i) ==
    IF i > n THEN <<>>
    ELSE << <<"phase_change", "executing", <<>> >>,
            <<"tasks_update", "", StatusesAt(n, i, "in_progress")>>,
            <<"tasks_update", "", StatusesAt(n, i, "completed")>>,
            <<"phase_change", "reflecting", <<>> >> >>
         \o PerTaskEvents(n, i + 1)

ScenarioExpected(n) ==
    << <<"phase_change", "planning", <<>> >>,
       <<"tasks_update", "", StatusesAt(n, 0, "pending")>> >>
    \o PerTaskEvents(n, 1)
    \o << <<"phase_change", "completed", <<>> >>, <<"complete", "", <<>> >> >>

\* a occurs in b as a subsequence (in order, other events in between allowed)
RECURSIVE IsSubseq(_, _)
IsSubseq(a, b) ==
    IF a = <<>> THEN TRUE
    ELSE IF b = <<>> THEN FALSE
    ELSE IF Head(a) = Head(b) THEN IsSubseq(Tail(a), Tail(b))
    ELSE IsSubseq(a, Tail(b))

Occurrences(q, k) == Cardinality({j \in DOMAIN q : q[j] = k})

\* C8: the events of a completed run with a plan of 3 tasks and every
\* generator call succeeding contain, in this order: phase_change planning
\* (once), tasks_update with 3 pending tasks (once), then per task
\* phase_change executing, tasks_update in_progress, tasks_update completed,
\* phase_change reflecting, and they end with phase_change completed and
\* complete; the summary counts 3 completed.
C8_ThreeTaskEventOrder ==
    \A r \in RunIds :
        (run[r].phase = "completed" /\ gen[r].plan = 3 /\ AllGeneratorCallsSucceed(r))
            => LET got == ScenarioEvents(r)
                   want == ScenarioExpected(3)
               IN /\ IsSubseq(want, got)
                  /\ Occurrences(got, want[1]) = 1
                  /\ Occurrences(got, want[2]) = 1
                  /\ SubSeq(got, Len(got) - 1, Len(got)) =
                         SubSeq(want, Len(want) - 1, Len(want))
                  /\ FinalSummary(r).completed = 3

C8_Witness ==
    /\ run[1].phase = "completed"
    /\ gen[1].plan = 3
    /\ AllGeneratorCallsSucceed(1)
    /\ hist[1].resumes = 0
    /\ CountStatus(run[1].tasks, "completed") = 3
    /\ EventsOfType(1, "complete") # {}

\* C9: for every task of every run state (live or checkpointed), result and
\* error are never both set, a result is set only on a completed task and an
\* error only on a failed task.
C9_ResultErrorExclusive ==
    \A r \in RunIds : \A s \in {run[r], ckpt[r]} : \A i \in DOMAIN s.tasks :
        LET t == s.tasks[i]
        IN /\ ~(t.result # 0 /\ t.error # 0)
           /\ t.result # 0 => t.status = "completed"
           /\ t.error # 0 => t.status = "failed"

C9_Witness ==
    /\ \E i \in DOMAIN run[1].tasks :
          run[1].tasks[i].status = "failed" /\ run[1].tasks[i].error # 0
    /\ \E i \in DOMAIN run[1].tasks :
          run[1].tasks[i].status = "completed" /\ run[1].tasks[i].result # 0

\* C10: a ledger is created with every task pending; afterwards a step
\* changes a task's status only from pending to in_progress or from
\* in_progress to completed, failed or needs_followup, so a completed or
\* failed task keeps its status; no task is added or removed.
C10_StatusLifecycle ==
    [][\A r \in RunIds :
          LET old == run[r].tasks
              new == run'[r].tasks
          IN IF old = <<>>
             THEN \A i \in DOMAIN new : new[i].status = "pending"
             ELSE /\ DOMAIN new = DOMAIN old
                  /\ \A i \in DOMAIN old :
                        \/ new[i].status = old[i].status
                        \/ old[i].status = "pending" /\ new[i].status = "in_progress"
                        \/ /\ old[i].status = "in_progress"
                           /\ new[i].status \in {"completed", "failed", "needs_followup"}]_vars

C10_Witness ==
    /\ hist[1].resumes >= 1
    /\ run[1].phase = "completed"
    /\ \E i \in DOMAIN run[1].tasks : run[1].tasks[i].status = "failed"
    /\ \E i \in DOMAIN run[1].tasks : run[1].tasks[i].status = "completed"

Ids(tasks) == [i \in DOMAIN tasks |-> tasks[i].id]

\* C11: once the Task Ledger of a run is filled, no step (transition, pause,
\* close, checkpoint reload or resume) changes the sequence of its task
\* identifiers, in the live run state or in the Checkpoint Store.
C11_LedgerIdsImmutable ==
    [][\A r \in RunIds :
          /\ run[r].tasks # <<>> => Ids(run'[r].tasks) = Ids(run[r].tasks)
          /\ ckpt[r].tasks # <<>> => Ids(ckpt'[r].tasks) = Ids(ckpt[r].tasks)]_vars

C11_Witness ==
    /\ hist[1].closes >= 1
    /\ hist[1].resumes >= 1
    /\ run[1].state = "reflecting"
    /\ Ids(run[1].tasks) = <<1, 2, 3>>
    /\ run[1].tasks[2].status \in {"completed", "failed"}

IsPrefix(a, b) == Len(a) <= Len(b) /\ SubSeq(b, 1, Len(a)) = a

\* C12: across every step (transition, pause, close, reload, resume) the
\* trace log before the step is a prefix of the trace log after it, in the
\* live run state and in the Checkpoint Store.
C12_TraceAppendOnly ==
    [][\A r \in RunIds :
          /\ IsPrefix(run[r].trace, run'[r].trace)
          /\ IsPrefix(ckpt[r].trace, ckpt'[r].trace)]_vars

C12_Witness ==
    /\ hist[1].pauses >= 1
    /\ hist[1].resumes >= 1
    /\ Len(run[1].trace) >= 5
    /\ run[1].trace[1].node = "analyze_goal"
    /\ run[1].trace[Len(run[1].trace)].node = "execute_task"

\* transitions a run finished since its pending pause request
SincePause(r) == Len(run[r].trace) - hist[r].traceAtPause

\* C13: after a pause request the engine finishes at most the transition
\* that was in flight when the request came (none when it came at a
\* boundary); a transition in flight is never dropped: it ends with its
\* trace entry appended and the checkpoint written; the engine stops for a
\* pause only at a boundary, with the checkpoint equal to its run state.
C13_PauseAtBoundaryOnly ==
    /\ [](\A r \in RunIds :
            run[r].paused =>
                SincePause(r) <= (IF hist[r].pauseInFlight THEN 1 ELSE 0))
    /\ [][\A r \in RunIds :
            /\ (inflight[r] /\ ~inflight'[r]) =>
                  /\ Len(run'[r].trace) = Len(run[r].trace) + 1
                  /\ ckpt'[r] = run'[r]
            /\ (run[r].paused /\ ~inflight[r]) => ~inflight'[r]
            /\ (run[r].paused /\ active[r] >= 1 /\ active'[r] = 0
                  /\ hist'[r].closes = hist[r].closes) =>
                  /\ ~inflight'[r]
                  /\ ckpt'[r] = run'[r]
                  /\ SincePause(r)' = (IF hist[r].pauseInFlight THEN 1 ELSE 0)]_vars

C13_Witness ==
    /\ run[1].phase = "paused"
    /\ active[1] = 0
    /\ hist[1].pauseInFlight
    /\ SincePause(1) = 1
    /\ run[1].state = "reflecting"
    /\ ckpt[1] = run[1]

\* C14: a resume of a run that stopped for a pause puts the engine in the
\* state the run was in when it stopped, with the ledger and the trace log
\* of that moment and the paused flag cleared.
C14_ResumeReturnsToPausedState ==
    [][\A r \in RunIds :
          (hist'[r].resumes = hist[r].resumes + 1 /\ hist[r].pausedAt # "none") =>
              /\ run'[r].state = hist[r].pausedAt
              /\ run'[r].tasks = run[r].tasks
              /\ run'[r].trace = run[r].trace
              /\ ~run'[r].paused
              /\ active'[r] = 1]_vars

C14_Witness ==
    /\ lastOp[1] = "resumed"
    /\ hist[1].pauses >= 1
    /\ active[1] = 1
    /\ run[1].phase = "paused"
    /\ run[1].state = "executing"
    /\ run[1].tasks[1].status = "in_progress"

Resumed(r) == hist'[r].resumes = hist[r].resumes + 1

TraceCount(r, node) ==
    Cardinality({j \in DOMAIN run[r].trace : run[r].trace[j].node = node})

PlannedOnce(r) ==
    /\ TraceCount(r, "analyze_goal") <= 1
    /\ TraceCount(r, "plan_todos") <= 1

\* C15 as stated: every resume of a run whose ledger is non-empty puts the
\* engine in selecting, and analyzing and planning run at most once.
C15_Original ==
    /\ [](\A r \in RunIds : PlannedOnce(r))
    /\ [][\A r \in RunIds :
            (Resumed(r) /\ ckpt[r].tasks # <<>>) =>
                /\ run'[r].state = "selecting"
                /\ run'[r].tasks = ckpt[r].tasks]_vars

\* C15: a resume of a run whose ledger is non-empty puts the engine in
\* selecting when the run was terminal (completed or error) and in the state
\* the run stopped in otherwise, never in analyzing or planning, with the
\* ledger as stored; analyzing and planning run at most once per run id.
C15_ResumeNeverReplans ==
    /\ [](\A r \in RunIds : PlannedOnce(r))
    /\ [][\A r \in RunIds :
            (Resumed(r) /\ ckpt[r].tasks # <<>>) =>
                /\ run'[r].state \in LoopPhases
                /\ ckpt[r].state \in TerminalPhases => run'[r].state = "selecting"
                /\ ckpt[r].state \notin TerminalPhases => run'[r].state = ckpt[r].state
                /\ run'[r].tasks = ckpt[r].tasks]_vars

C15_Witness ==
    /\ hist[1].faults >= 1
    /\ hist[1].resumes >= 1
    /\ lastOp[1] = "resumed"
    /\ run[1].state = "selecting"
    /\ active[1] = 1
    /\ run[1].phase = "error"
    /\ hist[1].pauses = 0
    /\ hist[1].closes = 0
    /\ PendingIdx(run[1].tasks) # {}
    /\ TraceCount(1, "plan_todos") = 1

NothingPending(s) == \A i \in DOMAIN s.tasks : s.tasks[i].status # "pending"

Increasing(q) == \A j \in DOMAIN q : j > 1 => q[j] > q[j - 1]

\* C17: what a subscriber is handed, and what waits in its queue, are events
\* of its run in publish order, all published after the subscriber attached:
\* every delivery has a higher publish number than the one before and than
\* the number of events published before the attach.
C17_DeliveryInPublishOrder ==
    /\ [](\A r \in RunIds : \A s \in Subscribers :
            LET u == subs[r][s]
            IN /\ u.got > 0 => u.got > u.from
               /\ Increasing(u.buf)
               /\ \A j \in DOMAIN u.buf :
                     u.buf[j] > u.from /\ u.buf[j] > u.got
                     /\ u.buf[j] <= Len(events[r]))
    /\ [][\A r \in RunIds : \A s \in Subscribers :
            subs'[r][s].got # subs[r][s].got =>
                /\ subs'[r][s].got > subs[r][s].got
                /\ subs'[r][s].got > subs[r][s].from]_vars

C17_Witness ==
    /\ subs[1][1].from = 0
    /\ subs[1][1].got >= 2
    /\ subs[1][2].from >= 3
    /\ subs[1][2].got > subs[1][2].from + 1
    /\ subs[1][2].buf # <<>>

TraceNodes(r) == [j \in DOMAIN run[r].trace |-> run[r].trace[j].node]

RECURSIVE LoopNodes(_)
LoopNodes(n) ==
    IF n = 0 THEN <<>>
    ELSE <<"select_task", "execute_task", "reflect">> \o LoopNodes(n - 1)

\* the transitions of a run nobody listens to
ExpectedNodes(g) ==
    <<"analyze_goal", "plan_todos">> \o LoopNodes(g.plan)
    \o <<"select_task", "complete">>

\* C18: a started run reaches a terminal phase whatever its subscribers do
\* (none attached, attached and never reading, reading, detached), and a
\* completed run has made exactly the transitions of an unattended run.
C18_ProgressWithoutSubscribers ==
    /\ \A r \in MainRuns : Started(r) ~> (run[r].state \in TerminalPhases)
    /\ [](\A r \in MainRuns :
            run[r].state = "completed" => TraceNodes(r) = ExpectedNodes(gen[r]))

C18_Witness ==
    /\ run[1].state = "completed"
    /\ subs[1][1].st = "off"
    /\ subs[1][2].st = "on"
    /\ subs[1][2].got = 0
    /\ Len(subs[1][2].buf) > BufBound

LastN(q, n) == IF Len(q) <= n THEN q ELSE SubSeq(q, Len(q) - n + 1, Len(q))

NewNumbers(r) == [j \in 1..(Len(events'[r]) - Len(events[r])) |-> Len(events[r]) + j]

\* C19: the queue of an attached subscriber never holds more than BufBound
\* events and keeps publish order; a publish leaves in the queue the newest
\* BufBound of what was queued plus what was published (the oldest dropped).
C19_BoundedDropOldest ==
    /\ [](\A r \in RunIds : \A s \in Subscribers :
            subs[r][s].st = "on" =>
                Len(subs[r][s].buf) <= BufBound /\ Increasing(subs[r][s].buf))
    /\ [][\A r \in RunIds :
            (events'[r] # events[r] /\ slot[r] # 0) =>
                subs'[r][slot[r]].buf =
                    LastN(subs[r][slot[r]].buf \o NewNumbers(r), BufBound)]_vars

\* C20: a transition that ends while the Checkpoint Store takes writes
\* leaves the checkpoint equal to the run state; the engine begins a
\* transition, and stops, only with the checkpoint equal to its run state;
\* while the snapshot of the last transition is not written the engine has
\* no transition in flight and the run's state and trace log do not move.
C20_CheckpointBeforeNextTransition ==
    /\ [](\A r \in RunIds : store.unsaved[r] => ~inflight[r])
    /\ [][\A r \in RunIds :
            /\ (inflight[r] /\ ~inflight'[r] /\ store.up) => ckpt'[r] = run'[r]
            /\ (~inflight[r] /\ inflight'[r]) =>
                  ckpt[r] = run[r] /\ ~store.unsaved[r]
            /\ (active[r] >= 1 /\ active'[r] = 0) => ckpt'[r] = run'[r]
            /\ (store.unsaved[r] /\ store'.unsaved[r]) =>
                  /\ run'[r].state = run[r].state
                  /\ run'[r].trace = run[r].trace
                  /\ ~inflight'[r]]_vars

C20_Witness ==
    /\ store.unsaved[1]
    /\ ~store.up
    /\ active[1] = 1
    /\ run[1].state = "reflecting"
    /\ ckpt[1].state = "executing"
    /\ Len(run[1].trace) = Len(ckpt[1].trace) + 2
    /\ ~inflight[1]

\* C21: a subscription ends at its first complete or error event: the step
\* that handles a complete or error event on a connection leaves that
\* EventSource closed and the store disconnected, and a closed EventSource
\* stays closed and delivers no event, so none of its events changes the
\* store afterwards.
C21_SubscriptionEndsAtTerminalEvent ==
    [][\A c \in DOMAIN conn :
         /\ \A e \in SSEEvents :
               (e.event \in {"complete", "error"} /\ Receive(c, e)) =>
                   conn'[c].readyState = "closed" /\ ~ui'.isConnected
         /\ conn[c].readyState = "closed" =>
               /\ conn'[c].readyState = "closed"
               /\ \A e \in SSEEvents : ~Receive(c, e)]_vars

C21_Witness ==
    \E c \in DOMAIN conn :
        /\ conn[c].ended \in {"complete", "error"}
        /\ conn[c].readyState = "closed"
        /\ ~ui.isConnected
        /\ ui.phase \in {"completed", "error"}

\* C22: every error of a run is both logged and published.  A step in which
\* the run goes to error (validation, planning or an unrecoverable failure),
\* a task ends failed (task execution) or a snapshot is not written
\* (persistence) appends a trace entry for that error to the trace log,
\* publishes an error event for it, and puts that event on the queue the bus
\* serves for the run; no such step lacks either.
NewTrace(r) == SubSeq(run'[r].trace, Len(run[r].trace) + 1, Len(run'[r].trace))

NewEvents(r) == SubSeq(events'[r], Len(events[r]) + 1, Len(events'[r]))

Logged(r, action) == \E k \in DOMAIN NewTrace(r) : NewTrace(r)[k].action = action

Surfaced(r, reason) ==
    \E k \in DOMAIN NewEvents(r) :
        /\ NewEvents(r)[k] = ErrorEvent(reason)
        /\ slot[r] # 0 =>
              \E j \in DOMAIN subs'[r][slot[r]].buf :
                  subs'[r][slot[r]].buf[j] = Len(events[r]) + k

GoesToError(r) == run'[r].state = "error" /\ run[r].state # "error"

TaskFails(r) ==
    \E i \in DOMAIN run'[r].tasks :
        /\ run'[r].tasks[i].status = "failed"
        /\ i \in DOMAIN run[r].tasks => run[r].tasks[i].status # "failed"

WriteFails(r) == store'.unsaved[r] /\ ~store.unsaved[r]

CompleteFrame(s, t) ==
    /\ t.phase = "completed"
    /\ ~t.isLoading
    /\ t.tasks = s.tasks
    /\ t.traces = s.traces
    /\ t.messages = s.messages
    /\ t.sessionId = s.sessionId
    /\ t.goal = s.goal

C23_CompleteEventFrame ==
    /\ [](CompleteFrame(ui, handleSSEEvent(ui, "complete", NoData)))
    /\ [][\A c \in DOMAIN conn :
            (Receive(c, [event |-> "complete", data |-> NoData])
                /\ Len(conn') = Len(conn)) => CompleteFrame(ui, ui')]_vars

C23_Witness ==
    /\ \E c \in DOMAIN conn : conn[c].ended = "complete"
    /\ ui.phase = "completed"
    /\ ~ui.isLoading
    /\ ui.tasks # <<>>
    /\ Len(ui.traces) = MaxLog
    /\ Len(ui.messages) = MaxLog
    /\ ui.sessionId # null

\* C24: from any store state, handling an error event sets error to the
\* event's error text, phase to error and isLoading to false and leaves
\* tasks, traces and messages as they were; so does the step in which a
\* connection delivers an error event, when the hook opens no connection in it.
ErrorFrame(s, t, text) ==
    /\ t.error = text
    /\ t.phase = "error"
    /\ ~t.isLoading
    /\ t.tasks = s.tasks
    /\ t.traces = s.traces
    /\ t.messages = s.messages

C24_ErrorEventFrame ==
    /\ [](\A e \in SSEEvents :
            e.event = "error" =>
                ErrorFrame(ui, handleSSEEvent(ui, e.event, e.data), e.data.error))
    /\ [][\A c \in DOMAIN conn : \A e \in SSEEvents :
            (e.event = "error" /\ Receive(c, e) /\ Len(conn') = Len(conn)) =>
                ErrorFrame(ui, ui', e.data.error)]_vars

C24_Witness ==
    /\ \E c \in DOMAIN conn : conn[c].ended = "error"
    /\ ui.error \in ErrorTexts
    /\ ui.phase = "error"
    /\ ~ui.isLoading
    /\ ui.tasks # <<>>
    /\ Len(ui.traces) = MaxLog
    /\ Len(ui.messages) = MaxLog

\* C25: a trace event and addTrace put exactly their entry at the end of
\* traces, a message event and addMessage put exactly their message at the
\* end of messages, each leaving the other list alone; and in every step in
\* which a connection delivers an event the two lists before the step are
\* prefixes of the lists after it, longer by the one entry of a trace or
\* message event and by nothing otherwise: the lists hold the entries in
\* arrival order.
Grown(e) ==
    [traces |-> IF e.event = "trace" THEN e.data.trace ELSE <<>>,
     messages |-> IF e.event = "message"
                  THEN <<Message(e.data.role, e.data.content)>> ELSE <<>>]

C25_AppendInArrivalOrder ==
    /\ [](/\ \A e \in SSEEvents :
               LET t == handleSSEEvent(ui, e.event, e.data)
               IN /\ t.traces = ui.traces \o Grown(e).traces
                  /\ t.messages = ui.messages \o Grown(e).messages
          /\ \A tr \in TraceEntries :
               /\ addTrace(ui, tr).traces = ui.traces \o <<tr>>
               /\ addTrace(ui, tr).messages = ui.messages
          /\ \A m \in Messages :
               /\ addMessage(ui, m).messages = ui.messages \o <<m>>
               /\ addMessage(ui, m).traces = ui.traces)
    /\ [][\A c \in DOMAIN conn : \A e \in SSEEvents :
            Receive(c, e) =>
                /\ ui'.traces = ui.traces \o Grown(e).traces
                /\ ui'.messages = ui.messages \o Grown(e).messages]_vars

C25_Witness ==
    /\ \E c \in DOMAIN conn : conn[c].readyState = "open"
    /\ ui.traces = <<TraceEntry("executing", "task_completed", 1),
                     TraceEntry("planning", "planning_complete", 0)>>
    /\ ui.messages = <<Message("user", "Create a landing page"),
                       Message("assistant", "Hi there!")>>

\* C26: in every store state the page, the hook and the events reach,
\* reset() yields sessionId null, goal empty, phase idle, isConnected false,
\* tasks, traces and messages empty, isLoading, isResuming and isViewOnly
\* false, resumeInput null and error null; and the store holds exactly these
\* values after the step in which the user asks for a new session.
IsReset(s) ==
    /\ s.sessionId = null
    /\ s.goal = ""
    /\ s.phase = "idle"
    /\ ~s.isConnected
    /\ s.tasks = <<>>
    /\ s.traces = <<>>
    /\ s.messages = <<>>
    /\ ~s.isLoading
    /\ ~s.isResuming
    /\ ~s.isViewOnly
    /\ s.resumeInput = null
    /\ s.error = null

C26_ResetRestoresInitialState ==
    /\ [](IsReset(reset(ui)))
    /\ [][HandleNewSession => IsReset(ui')]_vars

C26_Witness ==
    /\ IsReset(ui)
    /\ page.issued # {}
    /\ hook.eventSourceRef # 0
    /\ hook.lastResumingRef
    /\ conn[hook.eventSourceRef].readyState = "closed"

\* C27: handling a tasks_update event yields the same store with tasks set to
\* exactly the event's task list, handling a phase_change event the same
\* store with phase set to the event's phase; the step in which a connection
\* delivers one of them changes the store in just that way, no other event
\* changes tasks, and only complete and error events change phase besides:
\* tasks and phase are those of the last tasks_update and phase_change.
C27_TasksAndPhaseReplaced ==
    /\ [](\A e \in SSEEvents :
            /\ e.event = "tasks_update" =>
                  handleSSEEvent(ui, e.event, e.data) =
                      [ui EXCEPT !.tasks = e.data.tasks]
            /\ e.event = "phase_change" =>
                  handleSSEEvent(ui, e.event, e.data) =
                      [ui EXCEPT !.phase = e.data.phase])
    /\ [][\A c \in DOMAIN conn : \A e \in SSEEvents :
            Receive(c, e) =>
                /\ e.event = "tasks_update" => ui' = [ui EXCEPT !.tasks = e.data.tasks]
                /\ e.event = "phase_change" => ui' = [ui EXCEPT !.phase = e.data.phase]
                /\ e.event # "tasks_update" => ui'.tasks = ui.tasks
                /\ (e.event \notin {"phase_change", "complete", "error"}) =>
                      ui'.phase = ui.phase]_vars

C27_Witness ==
    /\ \E c \in DOMAIN conn : conn[c].readyState = "open"
    /\ page.issued = {}
    /\ ui.isResuming
    /\ ui.tasks = <<Task(1, "failed"), Task(2, "pending")>>
    /\ ui.phase = "planning"

\* C28: in every store state the chat panel offers Continue Execution
\* exactly when phase is completed and some task is pending or failed, the
\* number of incomplete tasks it shows is the number of tasks whose status is
\* pending or failed, and the button is only ever pressed in such a state.
Incomplete(tasks) ==
    {i \in DOMAIN tasks : tasks[i].status \in {"pending", "failed"}}

C28_ContinueOfferedWhenIncomplete ==
    /\ [](/\ canResume(ui) <=>
               (ui.phase = "completed" /\ Incomplete(ui.tasks) # {})
          /\ Len(incompleteTasks(ui.tasks)) = Cardinality(Incomplete(ui.tasks)))
    /\ [][HandleContinueExecution(null) =>
            (ui.phase = "completed" /\ Incomplete(ui.tasks) # {})]_vars

C28_Witness ==
    /\ canResume(ui)
    /\ ui.phase = "completed"
    /\ ui.tasks = <<Task(1, "failed"), Task(2, "pending")>>
    /\ Len(incompleteTasks(ui.tasks)) = Len(ui.tasks)

\* C29: while the store is in view-only mode every EventSource is closed;
\* the step in which a session loaded for viewing arrives leaves isViewOnly
\* set, isResuming clear, every connection closed and no connection added;
\* and out of view-only mode a connection is opened only by a step of the
\* user starting, continuing or resuming.
AllClosed(cn) == \A c \in DOMAIN cn : cn[c].readyState = "closed"

C29_ViewOnlyHoldsNoConnection ==
    /\ [](ui.isViewOnly => AllClosed(conn))
    /\ [][/\ (LoadSessionOk /\ ~page.load.resume) =>
                /\ ui'.isViewOnly
                /\ ~ui'.isResuming
                /\ AllClosed(conn')
                /\ Len(conn') = Len(conn)
          /\ (ui.isViewOnly /\ Len(conn') > Len(conn)) =>
                \/ \E g \in Goals : HandleStartExecution(g)
                \/ \E i \in ResumeInputs \cup {null} : HandleContinueExecution(i)
                \/ (page.load.resume /\ (LoadSessionOk \/ LoadSessionFailed))]_vars

C29_Witness ==
    /\ ui.isViewOnly
    /\ ~ui.isResuming
    /\ ui.sessionId # null
    /\ hook.eventSourceRef # 0
    /\ conn[hook.eventSourceRef].readyState = "closed"
    /\ conn[hook.eventSourceRef].ended = ""
    /\ hook.cleanup = 0

\* C30: a planning step starts from an empty ledger; when the generator
\* returned no proposal (empty or unparsable output) it moves the run to
\* error with the ledger still empty and publishes an error event; when it
\* returned n >= 1 proposals it moves the run to selecting with a ledger
\* holding exactly the n proposed tasks in the order returned, all pending;
\* and planning is left for selecting only with at least one proposal.
ProposedInOrder(tasks, n) ==
    /\ Len(tasks) = n
    /\ \A i \in 1..n : tasks[i] = NewTask(i)

C30_PlanningNeedsProposals ==
    [][\A r \in MainRuns :
        /\ Plan(r) =>
            /\ run[r].tasks = <<>>
            /\ IF gen[r].plan = 0
               THEN /\ run'[r].state = "error"
                    /\ run'[r].tasks = <<>>
                    /\ events'[r][Len(events'[r])].type = "error"
               ELSE /\ run'[r].state = "selecting"
                    /\ ProposedInOrder(run'[r].tasks, gen[r].plan)
        /\ (run[r].state = "planning" /\ run'[r].state = "selecting") =>
            (gen[r].plan >= 1 /\ run'[r].tasks # <<>>)]_vars

C30_Witness ==
    /\ run[1].state = "selecting"
    /\ gen[1].plan = MaxTasks
    /\ ProposedInOrder(run[1].tasks, MaxTasks)

C30_WitnessFailure ==
    /\ run[1].state = "error"
    /\ gen[1].plan = 0
    /\ gen[1].ack
    /\ run[1].goal # ""
    /\ run[1].tasks = <<>>

\* C31: a step that takes the run out of reflecting, and every reflecting
\* transition, leaves the Task Ledger as it was and moves the run to
\* selecting, whether the task that just finished completed or failed.
LastAction(r) ==
    IF run[r].trace = <<>> THEN "none"
    ELSE run[r].trace[Len(run[r].trace)].action

C32_ExecuteOnceNoRetry ==
    [][\A r \in MainRuns :
        /\ Execute(r) =>
            LET i == Min(CurrentIdx(run[r].tasks))
                outcome == ExecOutcome(gen[r], ExecCalls(r) + 1)
            IN /\ execCount'[r] = [execCount[r] EXCEPT ![i] = @ + 1]
               /\ execCount'[r][i] = 1
               /\ run'[r].state = "reflecting"
               /\ run'[r].tasks[i].status =
                      (IF outcome = "ok" THEN "completed" ELSE "failed")
        /\ (run[r].state = "executing" /\ run'[r].state # "executing") =>
            (Execute(r) /\ run'[r].state = "reflecting")
        /\ ~Execute(r) => execCount'[r] = execCount[r]
        /\ \A i \in DOMAIN run[r].tasks \cap DOMAIN run'[r].tasks :
            /\ (run'[r].tasks[i].status = "in_progress"
                    /\ run[r].tasks[i].status # "in_progress") =>
                  (run[r].tasks[i].status = "pending" /\ execCount[r][i] = 0)
            /\ run[r].tasks[i].status = "failed" =>
                  run'[r].tasks[i].status = "failed"]_vars

C32_Witness ==
    /\ run[1].phase = "completed"
    /\ Len(run[1].tasks) = 2
    /\ run[1].tasks[1].status = "failed"
    /\ run[1].tasks[2].status = "completed"
    /\ execCount[1][1] = 1
    /\ execCount[1][2] = 1
    /\ hist[1].resumes = 0

\* C33: in every reachable state, handling a ping, node_start or node_end
\* event, whatever data it carries, returns the store with every field as
\* it was, and the listener that handles it on an open connection leaves
\* the store, the hook and the connections as they were.
KeepAlive == {"ping", "node_start", "node_end"}

Payloads == {e.data : e \in SSEEvents}

C33_KeepAliveChangesNothing ==
    \A t \in KeepAlive : \A d \in Payloads :
        /\ handleSSEEvent(ui, t, d) = ui
        /\ \A c \in DOMAIN conn :
              conn[c].readyState = "open" =>
                 Render(Listener(Client(ui, hook, conn), c, t, d))
                    = Client(ui, hook, conn)

C33_Witness ==
    /\ \E c \in DOMAIN conn : conn[c].readyState = "open"
    /\ ui.isConnected
    /\ ui.isLoading
    /\ ui.phase = "executing"
    /\ ui.tasks # <<>>
    /\ Len(ui.traces) = MaxLog
    /\ ui.messages # <<>>

\* C34: in every reachable state, the live run state and the stored
\* checkpoint hold at most one task with status in_progress, and they hold
\* one only while the run is in state executing, with the observed phase
\* executing or paused.
OneInProgressWhileExecuting(s) ==
    /\ Cardinality(CurrentIdx(s.tasks)) <= 1
    /\ CurrentIdx(s.tasks) # {} =>
          (s.state = "executing" /\ s.phase \in {"executing", "paused"})

C34_SingleInProgress ==
    \A r \in RunIds :
        OneInProgressWhileExecuting(run[r]) /\ OneInProgressWhileExecuting(ckpt[r])

\* C35: whenever the run is in completing, or has been completed from it,
\* whatever pauses, closes, checkpoint reloads and resumes came before, no
\* task of the ledger is pending or in_progress, and the final counts
\* satisfy completed + failed + needs_followup = total = number of tasks.
CountsAddUp(tasks) ==
    LET c == Summary(tasks)
    IN /\ c.total = Len(tasks)
       /\ c.completed + c.failed + c.needs_followup = c.total

C35_CompletingCountsAddUp ==
    \A r \in RunIds :
        /\ run[r].state \in {"completing", "completed"} =>
              /\ PendingIdx(run[r].tasks) = {}
              /\ CurrentIdx(run[r].tasks) = {}
              /\ CountsAddUp(run[r].tasks)
        /\ ckpt[r].state \in {"completing", "completed"} =>
              /\ PendingIdx(ckpt[r].tasks) = {}
              /\ CurrentIdx(ckpt[r].tasks) = {}
              /\ CountsAddUp(ckpt[r].tasks)

\* C36: the step in which a complete or error event is handled on a
\* connection to the resume endpoint opens no EventSource: it adds no
\* connection and leaves every connection closed, in particular none to the
\* stream endpoint.
Terminal == {"complete", "error"}

C36_NoReconnectAfterResumeEnds ==
    [][\A c \in DOMAIN conn : \A e \in SSEEvents :
          (/\ e.event \in Terminal
           /\ conn[c].url.endpoint = "resume"
           /\ Receive(c, e)) =>
             /\ Len(conn') = Len(conn)
             /\ AllClosed(conn')]_vars

\* C37: in every reachable state at most one EventSource is not closed
\* (connecting or open), and a step that opens an EventSource leaves every
\* earlier one closed.
Live(cn) == {c \in DOMAIN cn : cn[c].readyState # "closed"}

C37_AtMostOneConnection ==
    /\ [](Cardinality(Live(conn)) <= 1)
    /\ [][Len(conn') > Len(conn) => Live(conn') = {Len(conn')}]_vars

C37_Witness ==
    /\ Len(conn) = MaxConns
    /\ conn[1].readyState = "closed"
    /\ conn[MaxConns].readyState = "open"
    /\ hook.eventSourceRef = MaxConns
    /\ conn[MaxConns].url.endpoint = "resume"
    /\ ui.isConnected

\* C38: the step of a connection failure (onerror) leaves isConnected
\* false, error set to the connection-lost text, isLoading false and the
\* chat input accepting a submission.
C38_RetryAfterConnectionLoss ==
    [][\A c \in DOMAIN conn :
          OnError(c) =>
             /\ ~ui'.isConnected
             /\ ui'.error = "Connection lost. Please try again."
             /\ ~ui'.isLoading
             /\ canSubmit(ui')]_vars

\* C39: a step of Continue Execution that opens an EventSource opens it on
\* the resume endpoint of the session held, with the user input given with
\* that continue as user_input, and with none when none was given.
C39_ResumeSendsItsOwnInput ==
    [][\A i \in ResumeInputs \cup {null} :
          (HandleContinueExecution(i) /\ Len(conn') > Len(conn)) =>
             LET url == conn'[Len(conn')].url
             IN /\ url.endpoint = "resume"
                /\ url.session = ui.sessionId
                /\ url.user_input = i]_vars

\* C40: the step in which the load of a session requested by Resume from
\* history fails sets error, leaves sessionId, goal, tasks and traces as
\* they were and opens no EventSource; and every resume connection opened
\* when a load for Resume ends is for the session that was requested.
C40_ResumeOnlyRequestedSession ==
    [][/\ (LoadSessionFailed /\ page.load.resume) =>
            /\ ui'.error = "Failed to load session"
            /\ ui'.sessionId = ui.sessionId
            /\ ui'.goal = ui.goal
            /\ ui'.tasks = ui.tasks
            /\ ui'.traces = ui.traces
            /\ Len(conn') = Len(conn)
       /\ (/\ page.load.resume
           /\ (LoadSessionOk \/ LoadSessionFailed)
           /\ Len(conn') > Len(conn)) =>
            /\ conn'[Len(conn')].url.endpoint = "resume"
            /\ conn'[Len(conn')].url.session = page.load.sid]_vars

====
